---- MODULE Spec2Model ----
(***************************************************************************)
(* Model of react_agent.py: the ReAct control loop                         *)
(* (run_react_agent_fallback), the tool dispatcher                         *)
(* (dispatch_function_call, tool_search) and the arithmetic sandbox        *)
(* (safe_eval).                                                            *)
(*                                                                         *)
(* Python values are tagged records ([ty |-> "int", n |-> 2], ...).  A     *)
(* Python str is a sequence of tokens; a str that is handed to a library   *)
(* parser (json.loads, ast.parse) is represented by what that parser makes *)
(* of it: "malformed", or the document / syntax tree it denotes.           *)
(***************************************************************************)
EXTENDS Integers, Sequences, FiniteSets, TLC

(***************************************************************************)
(* Bounds of the model.                                                    *)
(***************************************************************************)
MaxSteps == 3       \* max_steps ranges over -1 .. MaxSteps
MaxDepth == 2       \* nesting depth of the expressions given to safe_eval

(***************************************************************************)
(* Python values.                                                          *)
(***************************************************************************)
NoneV == [ty |-> "NoneType"]
IntV(n) == [ty |-> "int", n |-> n]
StrV(s) == [ty |-> "str", s |-> s]
ListV(items) == [ty |-> "list", items |-> items]
DictV(d) == [ty |-> "dict", d |-> d]

RECURSIVE Gcd(_, _)
Gcd(a, b) == IF b = 0 THEN a ELSE Gcd(b, a % b)

Abs(a) == IF a < 0 THEN -a ELSE a

\* A float is modelled by the exact rational num/den (den > 0, lowest terms);
\* the expressions of the model stay within exactly representable doubles,
\* except that the sign of a zero is not kept.
FloatV(num, den) ==
    LET g == Gcd(Abs(num), Abs(den))
        s == IF den < 0 THEN -1 ELSE 1
    IN  [ty |-> "float", num |-> (s * num) \div g, den |-> (s * den) \div g]

\* A str holding expression source text: src is what ast.parse makes of it.
\* [k |-> "empty"] is "", [k |-> "malformed"] any text that is no expression
\* in eval mode (a statement such as "x = 1" included).
SrcV(src) == [ty |-> "str", src |-> src]
EmptySrc == SrcV([k |-> "empty"])
MalformedSrc == SrcV([k |-> "malformed"])
ExprSrc(tree) == SrcV([k |-> "expr", tree |-> tree])

IsSrc(v) == v.ty = "str" /\ "src" \in DOMAIN v

\* A str holding JSON text: json is what json.loads makes of it.
\* [k |-> "empty"] is "", [k |-> "malformed"] any text that is no JSON document.
JsonV(json) == [ty |-> "str", json |-> json]
EmptyJson == JsonV([k |-> "empty"])
MalformedJson == JsonV([k |-> "malformed"])
JsonDoc(value) == JsonV([k |-> "doc", value |-> value])

IsJson(v) == v.ty = "str" /\ "json" \in DOMAIN v

\* Python truth value of v
Truthy(v) ==
    CASE v.ty = "NoneType" -> FALSE
      [] v.ty = "int" -> v.n # 0
      [] v.ty = "float" -> v.num # 0
      [] v.ty = "str" ->
            IF IsSrc(v) THEN v.src.k # "empty"
            ELSE IF IsJson(v) THEN v.json.k # "empty"
            ELSE v.s # <<>>
      [] v.ty = "list" -> v.items # <<>>
      [] v.ty = "dict" -> DOMAIN v.d # {}
      [] v.ty = "FunctionCall" -> TRUE

(***************************************************************************)
(* Outcome of a call: a returned value, or an exception propagating to the *)
(* caller.                                                                 *)
(***************************************************************************)
Return(v) == [exc |-> "none", val |-> v, msg |-> ""]
Raise(e, m) == [exc |-> e, val |-> NoneV, msg |-> m]

(***************************************************************************)
(* Syntax trees, as ast.parse(expr, mode="eval") builds them.              *)
(***************************************************************************)
Constant(v) == [node |-> "Constant", value |-> v]
Name(id) == [node |-> "Name", id |-> id]
BinOp(l, op, r) == [node |-> "BinOp", left |-> l, op |-> op, right |-> r]
UnaryOp(op, x) == [node |-> "UnaryOp", op |-> op, operand |-> x]
Call(f) == [node |-> "Call", func |-> f]
Attribute(x, a) == [node |-> "Attribute", obj |-> x, attr |-> a]
Expression(body) == [node |-> "Expression", body |-> body]
Leaf(kind) == [node |-> kind]

ALLOWED_AST_NODES ==
    {"Expression", "BinOp", "UnaryOp", "Num", "Constant",
     "Add", "Sub", "Mult", "Div", "Pow", "Mod", "USub",
     "Load", "FloorDiv"}

\* ast.iter_child_nodes: the node-valued fields, in field order
Children(n) ==
    CASE n.node = "Expression" -> <<n.body>>
      [] n.node = "BinOp" -> <<n.left, Leaf(n.op), n.right>>
      [] n.node = "UnaryOp" -> <<Leaf(n.op), n.operand>>
      [] n.node = "Name" -> <<Leaf("Load")>>
      [] n.node = "Call" -> <<n.func>>
      [] n.node = "Attribute" -> <<n.obj, Leaf("Load")>>
      [] OTHER -> <<>>

\* ast.walk: breadth-first, starting from the nodes of todo
RECURSIVE Walk(_)
Walk(todo) ==
    IF todo = <<>> THEN <<>>
    ELSE <<Head(todo)>> \o Walk(Tail(todo) \o Children(Head(todo)))

\* ast.parse(expr, mode="eval")
AstParse(expr) ==
    IF ~IsSrc(expr) THEN Raise("TypeError", "compile() arg 1 must be a string, bytes or AST object")
    ELSE IF expr.src.k = "expr" THEN Return(Expression(expr.src.tree))
    ELSE Raise("SyntaxError", "invalid syntax")


(***************************************************************************)
(* Evaluation of a tree by eval(compile(tree, ...), {"__builtins__": {}},  *)
(* {}): Python's arithmetic on int, float, str and None.                   *)
(***************************************************************************)
RECURSIVE IPow(_, _)
IPow(b, e) == IF e = 0 THEN 1 ELSE b * IPow(b, e - 1)

\* floor(a / b), b # 0
PyFloorDiv(a, b) == IF b > 0 THEN a \div b ELSE (-a) \div (-b)

RECURSIVE Repeat(_, _)
Repeat(s, n) == IF n <= 0 THEN <<>> ELSE s \o Repeat(s, n - 1)

IsNum(v) == v.ty \in {"int", "float"}
NumOf(v) == IF v.ty = "int" THEN v.n ELSE v.num
DenOf(v) == IF v.ty = "int" THEN 1 ELSE v.den

IntOp(op, a, b) ==
    CASE op = "Add" -> Return(IntV(a + b))
      [] op = "Sub" -> Return(IntV(a - b))
      [] op = "Mult" -> Return(IntV(a * b))
      [] op = "Div" ->
            IF b = 0 THEN Raise("ZeroDivisionError", "division by zero")
            ELSE Return(FloatV(a, b))
      [] op = "FloorDiv" ->
            IF b = 0 THEN Raise("ZeroDivisionError", "integer division or modulo by zero")
            ELSE Return(IntV(PyFloorDiv(a, b)))
      [] op = "Mod" ->
            IF b = 0 THEN Raise("ZeroDivisionError", "integer division or modulo by zero")
            ELSE Return(IntV(a - b * PyFloorDiv(a, b)))
      [] op = "Pow" ->
            IF b >= 0 THEN Return(IntV(IPow(a, b)))
            ELSE IF a = 0
            THEN Raise("ZeroDivisionError", "0.0 cannot be raised to a negative power")
            ELSE Return(FloatV(1, IPow(a, -b)))
      [] OTHER -> Raise("TypeError", "unsupported operand type(s)")

\* n1/d1 op n2/d2, at least one of the operands a float; a float exponent is
\* integral in every expression of the model
FloatOp(op, n1, d1, n2, d2) ==
    CASE op = "Add" -> Return(FloatV(n1 * d2 + n2 * d1, d1 * d2))
      [] op = "Sub" -> Return(FloatV(n1 * d2 - n2 * d1, d1 * d2))
      [] op = "Mult" -> Return(FloatV(n1 * n2, d1 * d2))
      [] op = "Div" ->
            IF n2 = 0 THEN Raise("ZeroDivisionError", "float division by zero")
            ELSE Return(FloatV(n1 * d2, d1 * n2))
      [] op = "FloorDiv" ->
            IF n2 = 0 THEN Raise("ZeroDivisionError", "float floor division by zero")
            ELSE Return(FloatV(PyFloorDiv(n1 * d2, d1 * n2), 1))
      [] op = "Mod" ->
            IF n2 = 0 THEN Raise("ZeroDivisionError", "float modulo")
            ELSE LET q == PyFloorDiv(n1 * d2, d1 * n2)
                 IN  Return(FloatV(n1 * d2 - q * n2 * d1, d1 * d2))
      [] op = "Pow" /\ d2 = 1 ->
            IF n2 >= 0 THEN Return(FloatV(IPow(n1, n2), IPow(d1, n2)))
            ELSE IF n1 = 0
            THEN Raise("ZeroDivisionError", "0.0 cannot be raised to a negative power")
            ELSE Return(FloatV(IPow(d1, -n2), IPow(n1, -n2)))
      [] op \notin {"Add", "Sub", "Mult", "Div", "FloorDiv", "Mod", "Pow"} ->
            Raise("TypeError", "unsupported operand type(s)")

BinOpApply(op, l, r) ==
    CASE l.ty = "str" /\ r.ty = "str" /\ op = "Add" -> Return(StrV(l.s \o r.s))
      [] l.ty = "str" /\ r.ty = "int" /\ op = "Mult" -> Return(StrV(Repeat(l.s, r.n)))
      [] l.ty = "int" /\ r.ty = "str" /\ op = "Mult" -> Return(StrV(Repeat(r.s, l.n)))
      [] l.ty = "str" /\ op = "Mod" ->
            Raise("TypeError", "not all arguments converted during string formatting")
      [] l.ty = "int" /\ r.ty = "int" -> IntOp(op, l.n, r.n)
      [] IsNum(l) /\ IsNum(r) /\ "float" \in {l.ty, r.ty} ->
            FloatOp(op, NumOf(l), DenOf(l), NumOf(r), DenOf(r))
      [] OTHER -> Raise("TypeError", "unsupported operand type(s)")

UnaryOpApply(op, v) ==
    CASE op = "USub" /\ v.ty = "int" -> Return(IntV(-v.n))
      [] op = "USub" /\ v.ty = "float" -> Return(FloatV(-v.num, v.den))
      [] op = "UAdd" /\ IsNum(v) -> Return(v)
      [] OTHER -> Raise("TypeError", "bad operand type for unary operator")

RECURSIVE Eval(_)
Eval(t) ==
    CASE t.node = "Constant" -> Return(t.value)
      [] t.node = "Name" -> Raise("NameError", "name is not defined")
      [] t.node = "BinOp" ->
            LET l == Eval(t.left)
            IN  IF l.exc # "none" THEN l
                ELSE LET r == Eval(t.right)
                     IN  IF r.exc # "none" THEN r ELSE BinOpApply(t.op, l.val, r.val)
      [] t.node = "UnaryOp" ->
            LET v == Eval(t.operand)
            IN  IF v.exc # "none" THEN v ELSE UnaryOpApply(t.op, v.val)
      [] t.node = "Call" ->
            LET f == Eval(t.func)
            IN  IF f.exc # "none" THEN f
                ELSE Raise("TypeError", "object is not callable")
      [] t.node = "Attribute" ->
            LET v == Eval(t.obj)
            IN  IF v.exc # "none" THEN v
                ELSE Raise("AttributeError", "object has no attribute")

\* the digits after the decimal point of rem/den, at most k of them
RECURSIVE FracDigits(_, _, _)
FracDigits(rem, den, k) ==
    IF rem = 0 \/ k = 0 THEN ""
    ELSE ToString((rem * 10) \div den) \o FracDigits((rem * 10) % den, den, k - 1)

\* str(v): the tokens of the text of v
PyStr(v) ==
    CASE v.ty = "int" -> <<ToString(v.n)>>
      [] v.ty = "float" ->
            LET a == Abs(v.num)
                frac == FracDigits(a % v.den, v.den, 17)
            IN  <<(IF v.num < 0 THEN "-" ELSE "") \o ToString(a \div v.den) \o "."
                    \o (IF frac = "" THEN "0" ELSE frac)>>
      [] v.ty = "str" -> v.s
      [] v.ty = "NoneType" -> <<"None">>

(***************************************************************************)
(* safe_eval: parse, check every node against the allow-list, evaluate.    *)
(* evaluated tells whether the call reached eval(compile(...)).            *)
(***************************************************************************)
Min(S) == CHOOSE i \in S : \A j \in S : i <= j

SafeEvalReturn(tokens, evaluated) ==
    [exc |-> "none", val |-> StrV(tokens), msg |-> "", evaluated |-> evaluated]

\* safe_eval without the try around eval: the exception leaves the call
safe_eval_Uncaught(expr) ==
    LET parsed == AstParse(expr)
    IN  IF parsed.exc # "none"
        THEN SafeEvalReturn(<<"calc error: invalid expression (", parsed.msg, ")">>,
                            FALSE)
        ELSE LET nodes == Walk(<<parsed.val>>)
                 bad == {i \in 1..Len(nodes) : nodes[i].node \notin ALLOWED_AST_NODES}
             IN  IF bad # {}
                 THEN SafeEvalReturn(<<"calc error: disallowed expression part ",
                                       nodes[Min(bad)].node>>, FALSE)
                 ELSE LET result == Eval(parsed.val.body)
                      IN  IF result.exc = "none"
                          THEN SafeEvalReturn(PyStr(result.val), TRUE)
                          ELSE [exc |-> result.exc, val |-> NoneV, msg |-> result.msg,
                                evaluated |-> TRUE]

safe_eval(expr) ==
    LET parsed == AstParse(expr)
    IN  IF parsed.exc # "none"
        THEN SafeEvalReturn(<<"calc error: invalid expression (", parsed.msg, ")">>,
                            FALSE)
        ELSE LET nodes == Walk(<<parsed.val>>)
                 bad == {i \in 1..Len(nodes) : nodes[i].node \notin ALLOWED_AST_NODES}
             IN  IF bad # {}
                 THEN SafeEvalReturn(<<"calc error: disallowed expression part ",
                                       nodes[Min(bad)].node>>, FALSE)
                 ELSE LET result == Eval(parsed.val.body)
                      IN  IF result.exc = "none"
                          THEN SafeEvalReturn(PyStr(result.val), TRUE)
                          ELSE SafeEvalReturn(<<"calc error: evaluation failed (",
                                                result.msg, ")">>, TRUE)

(***************************************************************************)
(* The expressions given to the sandbox: every tree of depth at most       *)
(* MaxDepth over a few leaves whose right operands are leaves, the         *)
(* expressions of the documentation, and arguments that are no expression. *)
(***************************************************************************)
Leaves ==
    {Constant(IntV(0)), Constant(IntV(2)), Constant(StrV(<<"a">>)), Constant(NoneV),
     Name("x")}

BinOps == {"Add", "Sub", "Mult", "Div", "Pow", "Mod", "FloorDiv", "MatMult"}
UnaryOps == {"USub", "UAdd"}

\* the trees that have x as their left (or only) operand
Wraps(x) ==
    {BinOp(x, op, r) : op \in BinOps, r \in Leaves}
    \cup {UnaryOp(op, x) : op \in UnaryOps}
    \cup {Call(x), Attribute(x, "a")}

RECURSIVE Trees(_)
Trees(d) ==
    IF d = 0 THEN Leaves
    ELSE LET T == Trees(d - 1)
         IN  T \cup UNION {Wraps(x) : x \in T}

Num(n) == Constant(IntV(n))

\* (3+4)*5, 1991-1989, 1/0, 7//-2, -7%2, 2**-1
DocTrees ==
    {BinOp(BinOp(Num(3), "Add", Num(4)), "Mult", Num(5)),
     BinOp(Num(1991), "Sub", Num(1989)),
     BinOp(Num(1), "Div", Num(0)),
     BinOp(Num(7), "FloorDiv", UnaryOp("USub", Num(2))),
     BinOp(UnaryOp("USub", Num(7)), "Mod", Num(2)),
     BinOp(Num(2), "Pow", UnaryOp("USub", Num(1)))}

(***************************************************************************)
(* Text of a str: the tokens of an expression source.                      *)
(***************************************************************************)
OpSymbol(op) ==
    CASE op = "Add" -> "+" [] op = "Sub" -> "-" [] op = "Mult" -> "*"
      [] op = "Div" -> "/" [] op = "Pow" -> "**" [] op = "Mod" -> "%"
      [] op = "FloorDiv" -> "//" [] op = "MatMult" -> "@"
      [] op = "USub" -> "-" [] op = "UAdd" -> "+"

RECURSIVE Unparse(_)
Unparse(t) ==
    CASE t.node = "Constant" ->
            IF t.value.ty = "str" THEN <<"'">> \o t.value.s \o <<"'">>
            ELSE PyStr(t.value)
      [] t.node = "Name" -> <<t.id>>
      [] t.node = "BinOp" ->
            <<"(">> \o Unparse(t.left) \o <<OpSymbol(t.op)>> \o Unparse(t.right) \o <<")">>
      [] t.node = "UnaryOp" -> <<OpSymbol(t.op)>> \o Unparse(t.operand)
      [] t.node = "Call" -> Unparse(t.func) \o <<"()">>
      [] t.node = "Attribute" -> Unparse(t.obj) \o <<".", t.attr>>

\* f"{v}" for the values a query can be
Format(v) ==
    IF IsSrc(v)
    THEN CASE v.src.k = "empty" -> <<>>
           [] v.src.k = "malformed" -> <<"x = 1">>
           [] v.src.k = "expr" -> Unparse(v.src.tree)
    ELSE IF v.ty = "list" THEN <<"[...]">>
    ELSE IF v.ty = "dict" THEN <<"{...}">>
    ELSE PyStr(v)

(***************************************************************************)
(* tool_search.  net is what the network does during the call: the outcome *)
(* of the search-query GET, of the summary GET, and the length of the      *)
(* extract.  http lists the GET calls issued, each with its outcome.       *)
(***************************************************************************)
max_chars == 800

SearchOutcomes == {"unreachable", "error_status", "no_hits", "hit"}
SummaryOutcomes == {"unreachable", "not_200", "ok"}
ExtractLengths == {0, max_chars + 1}

NetOutcomes ==
    [search : SearchOutcomes \ {"hit"}, summary : {"ok"}, extract : {0}]
    \cup [search : {"hit"}, summary : SummaryOutcomes \ {"ok"}, extract : {0}]
    \cup [search : {"hit"}, summary : {"ok"}, extract : ExtractLengths]

ToolReturn(tokens, http) ==
    [exc |-> "none", val |-> StrV(tokens), msg |-> "", http |-> http, calc |-> 0,
     evaluated |-> FALSE]
ToolRaise(e, http) ==
    [exc |-> e, val |-> NoneV, msg |-> "", http |-> http, calc |-> 0, evaluated |-> FALSE]

Title == "World Wide Web"

Get1(net) == <<[call |-> "search", outcome |-> net.search]>>
Get2(net) == Get1(net) \o <<[call |-> "summary", outcome |-> net.summary]>>

\* tool_search turning a failure of the search-query GET into a result
tool_search_Recovers(query, net) ==
    IF ~Truthy(query) THEN ToolReturn(<<"search: empty query">>, <<>>)
    ELSE IF net.search \in {"unreachable", "error_status"}
    THEN ToolReturn(<<"search failed">>, Get1(net))
    ELSE IF net.search = "no_hits"
    THEN ToolReturn(<<"No wiki result for: ">> \o Format(query), Get1(net))
    ELSE IF net.summary = "unreachable" THEN ToolRaise("ConnectionError", Get2(net))
    ELSE IF net.summary = "not_200"
    THEN ToolReturn(<<"Found page ", Title, " but could not fetch summary.">>, Get2(net))
    ELSE ToolReturn(<<Title, ": ", "extract">>, Get2(net))

\* tool_search without the test for an empty query
tool_search_NoEmptyCheck(query, net) ==
    IF net.search = "unreachable" THEN ToolRaise("ConnectionError", Get1(net))
    ELSE IF net.search = "error_status" THEN ToolRaise("HTTPError", Get1(net))
    ELSE IF net.search = "no_hits"
    THEN ToolReturn(<<"No wiki result for: ">> \o Format(query), Get1(net))
    ELSE IF net.summary = "unreachable" THEN ToolRaise("ConnectionError", Get2(net))
    ELSE IF net.summary = "not_200"
    THEN ToolReturn(<<"Found page ", Title, " but could not fetch summary.">>, Get2(net))
    ELSE LET kept == IF net.extract < max_chars THEN net.extract ELSE max_chars
         IN  ToolReturn(<<Title, ": ", "extract[:" \o ToString(kept) \o "]">>,
                        Get2(net))

tool_search(query, net) ==
    IF ~Truthy(query) THEN ToolReturn(<<"search: empty query">>, <<>>)
    ELSE IF net.search = "unreachable" THEN ToolRaise("ConnectionError", Get1(net))
    ELSE IF net.search = "error_status" THEN ToolRaise("HTTPError", Get1(net))
    ELSE IF net.search = "no_hits"
    THEN ToolReturn(<<"No wiki result for: ">> \o Format(query), Get1(net))
    ELSE IF net.summary = "unreachable" THEN ToolRaise("ConnectionError", Get2(net))
    ELSE IF net.summary = "not_200"
    THEN ToolReturn(<<"Found page ", Title, " but could not fetch summary.">>, Get2(net))
    ELSE LET kept == IF net.extract < max_chars THEN net.extract ELSE max_chars
         IN  ToolReturn(<<Title, ": ", "extract[:" \o ToString(kept) \o "]">>,
                        Get2(net))

(***************************************************************************)
(* dispatch_function_call                                                  *)
(***************************************************************************)
\* args.get(key, default)
Get(args, key, default) ==
    IF args.ty # "dict"
    THEN Raise("AttributeError", "object has no attribute 'get'")
    ELSE Return(IF key \in DOMAIN args.d THEN args.d[key] ELSE default)

\* dispatch_function_call treating every name but "search" as "calc"
dispatch_function_call_CalcByDefault(function_name, args, net) ==
    IF function_name = "search"
    THEN LET q == Get(args, "query", EmptySrc)
         IN  IF q.exc # "none" THEN ToolRaise(q.exc, <<>>) ELSE tool_search(q.val, net)
    ELSE LET e == Get(args, "expression", EmptySrc)
         IN  IF e.exc # "none" THEN ToolRaise(e.exc, <<>>)
             ELSE LET r == safe_eval(e.val)
                  IN  [exc |-> r.exc, val |-> r.val, msg |-> r.msg, http |-> <<>>,
                       calc |-> 1, evaluated |-> r.evaluated]

dispatch_function_call(function_name, args, net) ==
    IF function_name = "search"
    THEN LET q == Get(args, "query", EmptySrc)
         IN  IF q.exc # "none" THEN ToolRaise(q.exc, <<>>) ELSE tool_search(q.val, net)
    ELSE IF function_name = "calc"
    THEN LET e == Get(args, "expression", EmptySrc)
         IN  IF e.exc # "none" THEN ToolRaise(e.exc, <<>>)
             ELSE LET r == safe_eval(e.val)
                  IN  [exc |-> r.exc, val |-> r.val, msg |-> r.msg, http |-> <<>>,
                       calc |-> 1, evaluated |-> r.evaluated]
    ELSE ToolReturn(<<"unknown function ", function_name>>, <<>>)

(***************************************************************************)
(* Text of an assistant reply: tokens, the marker "Final Answer:" being    *)
(* one token and white space a token of its own.                           *)
(***************************************************************************)
FINAL_MARKER == "Final Answer:"
Whitespace == {" "}

\* sep in s
Contains(s, sep) == \E i \in 1..Len(s) : s[i] = sep

\* s.split(sep)
RECURSIVE Split(_, _)
Split(s, sep) ==
    IF ~Contains(s, sep) THEN <<s>>
    ELSE LET i == Min({j \in 1..Len(s) : s[j] = sep})
         IN  <<SubSeq(s, 1, i - 1)>> \o Split(SubSeq(s, i + 1, Len(s)), sep)

\* s.strip()
RECURSIVE Strip(_)
Strip(s) ==
    IF s = <<>> THEN s
    ELSE IF Head(s) \in Whitespace THEN Strip(Tail(s))
    ELSE IF s[Len(s)] \in Whitespace THEN Strip(SubSeq(s, 1, Len(s) - 1))
    ELSE s

\* FinalAnswer without the strip()
FinalAnswer_Unstripped(assistant_text) ==
    LET parts == Split(assistant_text, FINAL_MARKER)
    IN  parts[Len(parts)]

\* FinalAnswer taking the part after the first marker: split(...)[1]
FinalAnswer_SecondPart(assistant_text) ==
    LET parts == Split(assistant_text, FINAL_MARKER)
    IN  Strip(parts[2])

\* assistant_text.split("Final Answer:")[-1].strip()
FinalAnswer(assistant_text) ==
    LET parts == Split(assistant_text, FINAL_MARKER)
    IN  Strip(parts[Len(parts)])

(***************************************************************************)
(* The model backend's replies.                                            *)
(***************************************************************************)
FunctionCallV(name, arguments) ==
    [ty |-> "FunctionCall", name |-> name, arguments |-> arguments]

Message(content, function_call) ==
    [role |-> "assistant", content |-> content, function_call |-> function_call]

Texts ==
    {<<"Final Answer:", " ", "42">>,
     <<"Thought: look it up">>,
     <<"Thought", " ", "Final Answer:", " ", "41", " ", "Final Answer:", " ", "42", " ">>}

ToolNames == {"search", "calc", "bogus_tool"}

WebQuery == ExprSrc(Name("web"))
Difference == ExprSrc(BinOp(Num(1991), "Sub", Num(1989)))

\* absent arguments, text that is no JSON, the documents [1] and null,
\* {"query": "web"} and {"expression": "1991-1989"}
ArgStrings ==
    {NoneV, MalformedJson, JsonDoc(ListV(<<IntV(1)>>)), JsonDoc(NoneV),
     JsonDoc(DictV([query |-> WebQuery])), JsonDoc(DictV([expression |-> Difference]))}

FunctionCalls == {FunctionCallV(n, a) : n \in ToolNames, a \in ArgStrings}

Responses ==
    {Message(StrV(t), NoneV) : t \in Texts}
    \cup {Message(NoneV, NoneV), Message(StrV(<<>>), NoneV)}
    \cup {Message(NoneV, fc) : fc \in FunctionCalls}
    \cup {Message(StrV(<<>>), FunctionCallV("bogus_tool", NoneV))}
    \cup {Message(NoneV, FunctionCallV("search", JsonDoc(DictV([query |-> EmptySrc]))))}
    \cup {Message(StrV(t), fc) :
            t \in {<<"Final Answer:", " ", "42">>, <<"Thought: look it up">>},
            fc \in {FunctionCallV("search", JsonDoc(DictV([query |-> WebQuery]))),
                    FunctionCallV("calc", JsonDoc(DictV([expression |-> Difference])))}}

Questions == {<<"When was the Web first shown? Also compute 1991 - 1989.">>}

(***************************************************************************)
(* run_react_agent_fallback                                                *)
(***************************************************************************)
VARIABLES
    max_steps,      \* the step budget of the run
    user_question,
    messages,       \* the transcript
    step,
    pc,             \* "AWAITING_MODEL", "DONE", "STEP_BUDGET_EXHAUSTED", "ABORTED"
    result,         \* the value returned, NoneV while there is none
    raised,         \* the exception that left the run, "none" while there is none
    responses,      \* the replies of the model backend so far
    nModelCalls,    \* calls of call_model_with_functions
    nDispatch,      \* calls of dispatch_function_call
    http_log,       \* the GET calls issued by tool_search, with their outcomes
    nCalc,          \* calls of safe_eval
    nSleep          \* pacing delays taken

runVars ==
    <<max_steps, user_question, messages, step, pc, result, raised, responses,
      nModelCalls, nDispatch, http_log, nCalc, nSleep>>

SYSTEM_PROMPT == StrV(<<"You are an assistant that follows the ReAct pattern. ...">>)

STOPPED == StrV(<<"Agent stopped: reached max steps or no final answer.">>)

RunInit ==
    /\ max_steps \in -1..MaxSteps
    /\ user_question \in {StrV(q) : q \in Questions}
    /\ messages = <<[role |-> "system", content |-> SYSTEM_PROMPT],
                    [role |-> "user", content |-> user_question]>>
    /\ step = 0
    /\ pc = "AWAITING_MODEL"
    /\ result = NoneV
    /\ raised = "none"
    /\ responses = <<>>
    /\ nModelCalls = 0 /\ nDispatch = 0 /\ http_log = <<>> /\ nCalc = 0 /\ nSleep = 0

RunIdle ==
    /\ max_steps = 0
    /\ user_question = NoneV
    /\ messages = <<>>
    /\ step = 0
    /\ pc = "idle"
    /\ result = NoneV
    /\ raised = "none"
    /\ responses = <<>>
    /\ nModelCalls = 0 /\ nDispatch = 0 /\ http_log = <<>> /\ nCalc = 0 /\ nSleep = 0

\* the loop test letting one more iteration in
InLoop_OneMore == pc = "AWAITING_MODEL" /\ step <= max_steps

\* while step < max_steps
InLoop == pc = "AWAITING_MODEL" /\ step < max_steps

\* the text test taking any str, the empty one included, for text
IsTextReply_AnyStr(msg) == msg.role = "assistant" /\ msg.content.ty = "str"

\* if msg.role == "assistant" and msg.content
IsTextReply(msg) == msg.role = "assistant" /\ Truthy(msg.content)

\* if msg.function_call, reached when the reply is no text reply
IsFunctionCall(msg) == ~IsTextReply(msg) /\ Truthy(msg.function_call)

\* msg.function_call.arguments or "{}"
ArgStr(msg) ==
    IF Truthy(msg.function_call.arguments) THEN msg.function_call.arguments
    ELSE JsonDoc(DictV(<<>>))

\* json.loads(argstr)
JsonLoads(argstr) ==
    IF argstr.json.k = "doc" THEN Return(argstr.json.value)
    ELSE Raise("JSONDecodeError", "Expecting value")

\* try: args = json.loads(argstr) except Exception: args = {}
ParseArgs(argstr) ==
    LET loaded == JsonLoads(argstr)
    IN  IF loaded.exc = "none" THEN loaded.val ELSE DictV(<<>>)

AssistantEntry(msg) == [role |-> "assistant", content |-> msg.content]

\* FunctionCallEntry without the function_call field
FunctionCallEntry_TextOnly(msg) == [role |-> "assistant", content |-> msg.content]

FunctionCallEntry(msg) ==
    [role |-> "assistant", content |-> msg.content,
     function_call |-> [name |-> msg.function_call.name, arguments |-> ArgStr(msg)]]

FunctionEntry(fname, observation) ==
    [role |-> "function", name |-> fname, content |-> observation]

\* the model backend does not answer: the exception leaves the run
ModelError ==
    /\ InLoop
    /\ step' = step + 1
    /\ nModelCalls' = nModelCalls + 1
    /\ pc' = "ABORTED"
    /\ raised' = "APIError"
    /\ UNCHANGED <<max_steps, user_question, messages, result, responses,
                   nDispatch, http_log, nCalc, nSleep>>

\* AssistantText keeping only the seed of the transcript and the new reply
AssistantText_Resets ==
    /\ InLoop
    /\ \E msg \in Responses :
        /\ IsTextReply(msg)
        /\ step' = step + 1
        /\ nModelCalls' = nModelCalls + 1
        /\ responses' = Append(responses, msg)
        /\ messages' = <<messages[1], messages[2], AssistantEntry(msg)>>
        /\ IF Contains(msg.content.s, FINAL_MARKER)
           THEN pc' = "DONE" /\ result' = StrV(FinalAnswer(msg.content.s))
           ELSE UNCHANGED <<pc, result>>
    /\ UNCHANGED <<max_steps, user_question, raised, nDispatch, http_log, nCalc, nSleep>>

\* one iteration, the reply being a text reply
AssistantText ==
    /\ InLoop
    /\ \E msg \in Responses :
        /\ IsTextReply(msg)
        /\ step' = step + 1
        /\ nModelCalls' = nModelCalls + 1
        /\ responses' = Append(responses, msg)
        /\ messages' = Append(messages, AssistantEntry(msg))
        /\ IF Contains(msg.content.s, FINAL_MARKER)
           THEN pc' = "DONE" /\ result' = StrV(FinalAnswer(msg.content.s))
           ELSE UNCHANGED <<pc, result>>
    /\ UNCHANGED <<max_steps, user_question, raised, nDispatch, http_log, nCalc, nSleep>>

\* one iteration, the reply being a function call
FunctionCall ==
    /\ InLoop
    /\ \E msg \in Responses, net \in NetOutcomes :
        /\ IsFunctionCall(msg)
        /\ LET fname == msg.function_call.name
               args == ParseArgs(ArgStr(msg))
               out == dispatch_function_call(fname, args, net)
               called == Append(messages, FunctionCallEntry(msg))
           IN  /\ step' = step + 1
               /\ nModelCalls' = nModelCalls + 1
               /\ responses' = Append(responses, msg)
               /\ nDispatch' = nDispatch + 1
               /\ http_log' = http_log \o out.http
               /\ nCalc' = nCalc + out.calc
               /\ IF out.exc = "none"
                  THEN /\ messages' = Append(called, FunctionEntry(fname, out.val))
                       /\ nSleep' = nSleep + 1
                       /\ UNCHANGED <<pc, raised>>
                  ELSE /\ messages' = called
                       /\ pc' = "ABORTED"
                       /\ raised' = out.exc
                       /\ UNCHANGED nSleep
    /\ UNCHANGED <<max_steps, user_question, result>>

\* one iteration, the reply having neither text nor a function call
NoBranch ==
    /\ InLoop
    /\ \E msg \in Responses :
        /\ ~IsTextReply(msg) /\ ~IsFunctionCall(msg)
        /\ step' = step + 1
        /\ nModelCalls' = nModelCalls + 1
        /\ responses' = Append(responses, msg)
    /\ UNCHANGED <<max_steps, user_question, messages, pc, result, raised,
                   nDispatch, http_log, nCalc, nSleep>>

\* the loop left only once step has passed max_steps
BudgetExhausted_Late ==
    /\ pc = "AWAITING_MODEL"
    /\ step > max_steps
    /\ pc' = "STEP_BUDGET_EXHAUSTED"
    /\ result' = STOPPED
    /\ UNCHANGED <<max_steps, user_question, messages, step, raised, responses,
                   nModelCalls, nDispatch, http_log, nCalc, nSleep>>

\* the loop ends: return the sentinel
BudgetExhausted ==
    /\ pc = "AWAITING_MODEL"
    /\ ~(step < max_steps)
    /\ pc' = "STEP_BUDGET_EXHAUSTED"
    /\ result' = STOPPED
    /\ UNCHANGED <<max_steps, user_question, messages, step, raised, responses,
                   nModelCalls, nDispatch, http_log, nCalc, nSleep>>

(***************************************************************************)
(* Specification SpecDispatch: one call of dispatch_function_call.  The    *)
(* expression given to calc ranges over the trees of depth at most         *)
(* MaxDepth, the expressions of the documentation and values that are no   *)
(* expression.                                                             *)
(***************************************************************************)
VARIABLES
    callPc,         \* "idle", "call", "returned", "raised"
    function_name,
    args,
    net,
    callOut         \* the outcome of the call

callVars == <<callPc, function_name, args, net, callOut>>

(***************************************************************************)
(* The caller of the loop: run and build_and_run_langgraph.                *)
(***************************************************************************)
VARIABLES
    question,       \* the question given to run
    use_langgraph,  \* the selector argument of run
    HAS_LANGGRAPH,  \* the module flag set at import
    model,          \* the model the loop calls
    via             \* the functions entered, in order

selVars == <<question, use_langgraph, HAS_LANGGRAPH, model, via>>

(***************************************************************************)
(* Threads of the host, each in a call of run_react_agent_fallback.  The   *)
(* variables of the run are the locals of the call of the thread that is   *)
(* running; the locals of the calls of the other threads are parked.       *)
(***************************************************************************)
VARIABLES
    tid,            \* the thread that is running
    parked          \* the locals of the calls of the other threads

threadVars == <<tid, parked>>

vars == <<runVars, callVars, selVars, threadVars>>

\* one thread only
OneThread == tid = "A" /\ parked = <<>>

\* the defaults of run_react_agent_fallback and of build_and_run_langgraph
FALLBACK_MAX_STEPS == 8
FALLBACK_MODEL == "gpt-4-0613"
LANGGRAPH_MAX_STEPS == 8

\* a call of run_react_agent_fallback(q, max_steps=n, model=m), entered by path
Entry(path, q, n, m) ==
    [via |-> Append(path, "run_react_agent_fallback"),
     user_question |-> q, max_steps |-> n, model |-> m]

\* build_and_run_langgraph running a graph of its own when langgraph is there
build_and_run_langgraph_Graph(path, q, n) ==
    IF HAS_LANGGRAPH
    THEN [via |-> path \o <<"build_and_run_langgraph", "StateGraph">>,
          user_question |-> q, max_steps |-> n, model |-> FALLBACK_MODEL]
    ELSE Entry(Append(path, "build_and_run_langgraph"), q, n, FALLBACK_MODEL)

\* return run_react_agent_fallback(question, max_steps=max_steps)
build_and_run_langgraph(path, q, n) ==
    Entry(Append(path, "build_and_run_langgraph"), q, n, FALLBACK_MODEL)

\* run(question, use_langgraph)
run(q, ul) ==
    IF ul /\ HAS_LANGGRAPH
    THEN build_and_run_langgraph(<<"run">>, q, LANGGRAPH_MAX_STEPS)
    ELSE Entry(<<"run">>, q, FALLBACK_MAX_STEPS, FALLBACK_MODEL)

\* run_react_agent_fallback called by itself (it reads neither flag)
Direct ==
    /\ question = user_question
    /\ use_langgraph = FALSE
    /\ HAS_LANGGRAPH = FALSE
    /\ model = FALLBACK_MODEL
    /\ via = <<"run_react_agent_fallback">>

\* no run is called
NoRun ==
    /\ question = NoneV
    /\ use_langgraph = FALSE
    /\ HAS_LANGGRAPH = FALSE
    /\ model = FALLBACK_MODEL
    /\ via = <<>>

CallNames == ToolNames \cup {""}

QuietNet == [search |-> "no_hits", summary |-> "ok", extract |-> 0]

\* argument values that are not built from the trees
OtherArgs ==
    {DictV(<<>>), ListV(<<IntV(1)>>), NoneV, IntV(7),
     DictV([query |-> WebQuery]), DictV([query |-> EmptySrc]), DictV([query |-> NoneV]),
     DictV([query |-> WebQuery, expression |-> Difference])}
    \cup {DictV([expression |-> e]) :
            e \in {ExprSrc(t) : t \in DocTrees} \cup {EmptySrc, MalformedSrc, NoneV, IntV(5)}}

CallIdle ==
    /\ callPc = "idle" /\ function_name = "" /\ args = NoneV
    /\ net = QuietNet /\ callOut = NoneV

CallInit ==
    /\ RunIdle
    /\ NoRun
    /\ OneThread
    /\ callPc = "call"
    /\ callOut = NoneV
    /\ \/ /\ function_name \in CallNames
          /\ args \in OtherArgs
          /\ net \in NetOutcomes
       \/ /\ function_name = "calc"
          /\ net = QuietNet
          /\ \E x \in Trees(MaxDepth - 1) : \E t \in {x} \cup Wraps(x) :
                args = DictV([expression |-> ExprSrc(t)])

DispatchCall ==
    /\ callPc = "call"
    /\ callOut' = dispatch_function_call(function_name, args, net)
    /\ callPc' = IF callOut'.exc = "none" THEN "returned" ELSE "raised"
    /\ UNCHANGED <<function_name, args, net>>

CallNext == DispatchCall /\ UNCHANGED <<runVars, selVars, threadVars>>

SpecDispatch == CallInit /\ [][CallNext]_vars

(***************************************************************************)
(* Specification Spec: one run of run_react_agent_fallback.                *)
(***************************************************************************)
Init == RunInit /\ CallIdle /\ Direct /\ OneThread

Next ==
    \/ ModelError /\ UNCHANGED <<callVars, selVars, threadVars>>
    \/ AssistantText /\ UNCHANGED <<callVars, selVars, threadVars>>
    \/ FunctionCall /\ UNCHANGED <<callVars, selVars, threadVars>>
    \/ NoBranch /\ UNCHANGED <<callVars, selVars, threadVars>>
    \/ BudgetExhausted /\ UNCHANGED <<callVars, selVars, threadVars>>

Spec == Init /\ [][Next]_vars

(***************************************************************************)
(* Specification FairSpec: the run is one synchronous thread of control;   *)
(* an iteration that can be taken is taken, and it ends when the model     *)
(* call and the tool call in it end (by returning or by raising).          *)
(***************************************************************************)
FairSpec == Init /\ [][Next]_vars /\ WF_vars(Next)

(***************************************************************************)
(* Specification SpecSelector: one call of run, for every question, every  *)
(* use_langgraph and every HAS_LANGGRAPH, followed up to its first         *)
(* MaxSteps - 1 iterations.                                                *)
(***************************************************************************)
SelInit ==
    /\ RunIdle
    /\ CallIdle
    /\ question \in {StrV(q) : q \in Questions}
    /\ use_langgraph \in BOOLEAN
    /\ HAS_LANGGRAPH \in BOOLEAN
    /\ model = FALLBACK_MODEL
    /\ via = <<>>
    /\ OneThread

\* run(question, use_langgraph) up to the first line of the loop
Run ==
    /\ pc = "idle"
    /\ LET entry == run(question, use_langgraph)
       IN  /\ via' = entry.via
           /\ model' = entry.model
           /\ max_steps' = entry.max_steps
           /\ user_question' = entry.user_question
           /\ messages' = <<[role |-> "system", content |-> SYSTEM_PROMPT],
                            [role |-> "user", content |-> entry.user_question]>>
    /\ step' = 0
    /\ pc' = "AWAITING_MODEL"
    /\ UNCHANGED <<result, raised, responses, nModelCalls, nDispatch, http_log,
                   nCalc, nSleep, question, use_langgraph, HAS_LANGGRAPH>>

InPrefix == step < MaxSteps - 1

SelNext ==
    \/ Run /\ UNCHANGED <<callVars, threadVars>>
    \/ InPrefix /\ ModelError /\ UNCHANGED <<callVars, selVars, threadVars>>
    \/ InPrefix /\ AssistantText /\ UNCHANGED <<callVars, selVars, threadVars>>
    \/ InPrefix /\ FunctionCall /\ UNCHANGED <<callVars, selVars, threadVars>>
    \/ InPrefix /\ NoBranch /\ UNCHANGED <<callVars, selVars, threadVars>>

SpecSelector == SelInit /\ [][SelNext]_vars

(***************************************************************************)
(* Specification SpecConcurrent: the threads of Threads, each in a call of *)
(* run_react_agent_fallback with a question of its own, their iterations   *)
(* interleaved in any order.                                               *)
(***************************************************************************)
Threads == {"A", "B"}

Asks ==
    [t \in Threads |->
        IF t = "A" THEN <<"When was the Web first shown? Also compute 1991 - 1989.">>
        ELSE <<"What is 2 ** 10?">>]

ConcurrentSteps == MaxSteps - 1

\* the locals of a call right before its loop
NewFrame(q, n) ==
    [max_steps |-> n, user_question |-> StrV(q),
     messages |-> <<[role |-> "system", content |-> SYSTEM_PROMPT],
                    [role |-> "user", content |-> StrV(q)]>>,
     step |-> 0, pc |-> "AWAITING_MODEL", result |-> NoneV, raised |-> "none",
     responses |-> <<>>, nModelCalls |-> 0, nDispatch |-> 0, http_log |-> <<>>,
     nCalc |-> 0, nSleep |-> 0]

\* the locals of the call of the running thread
Frame ==
    [max_steps |-> max_steps, user_question |-> user_question, messages |-> messages,
     step |-> step, pc |-> pc, result |-> result, raised |-> raised,
     responses |-> responses, nModelCalls |-> nModelCalls, nDispatch |-> nDispatch,
     http_log |-> http_log, nCalc |-> nCalc, nSleep |-> nSleep]

\* one list shared by all calls, in place of the list each call makes
OwnTranscript_Shared(t) == messages

\* messages of the call of thread t: the list made by that call
OwnTranscript(t) == parked[t].messages

\* the host switches from the running thread to thread t
Switch(t) ==
    /\ t \in DOMAIN parked
    /\ tid' = t
    /\ parked' = [u \in (DOMAIN parked \ {t}) \cup {tid} |->
                    IF u = tid THEN Frame ELSE parked[u]]
    /\ max_steps' = parked[t].max_steps
    /\ user_question' = parked[t].user_question
    /\ messages' = OwnTranscript(t)
    /\ step' = parked[t].step
    /\ pc' = parked[t].pc
    /\ result' = parked[t].result
    /\ raised' = parked[t].raised
    /\ responses' = parked[t].responses
    /\ nModelCalls' = parked[t].nModelCalls
    /\ nDispatch' = parked[t].nDispatch
    /\ http_log' = parked[t].http_log
    /\ nCalc' = parked[t].nCalc
    /\ nSleep' = parked[t].nSleep

\* the replies of the model backend in this specification
ConcurrentReplies ==
    {Message(StrV(<<"Final Answer:", " ", "42">>), NoneV),
     Message(StrV(<<"Thought: look it up">>), NoneV),
     Message(NoneV, NoneV),
     Message(NoneV, FunctionCallV("calc", JsonDoc(DictV([expression |-> Difference])))),
     Message(NoneV, FunctionCallV("bogus_tool", NoneV))}

Scripted == responses'[Len(responses')] \in ConcurrentReplies

ConcInit ==
    /\ CallIdle
    /\ tid = "A"
    /\ parked = [t \in Threads \ {"A"} |-> NewFrame(Asks[t], ConcurrentSteps)]
    /\ max_steps = ConcurrentSteps
    /\ user_question = StrV(Asks["A"])
    /\ messages = NewFrame(Asks["A"], ConcurrentSteps).messages
    /\ step = 0
    /\ pc = "AWAITING_MODEL"
    /\ result = NoneV
    /\ raised = "none"
    /\ responses = <<>>
    /\ nModelCalls = 0 /\ nDispatch = 0 /\ http_log = <<>> /\ nCalc = 0 /\ nSleep = 0
    /\ Direct

ConcNext ==
    \/ \E t \in Threads : Switch(t) /\ UNCHANGED <<callVars, selVars>>
    \/ ModelError /\ UNCHANGED <<callVars, selVars, threadVars>>
    \/ AssistantText /\ Scripted /\ UNCHANGED <<callVars, selVars, threadVars>>
    \/ FunctionCall /\ Scripted /\ UNCHANGED <<callVars, selVars, threadVars>>
    \/ NoBranch /\ Scripted /\ UNCHANGED <<callVars, selVars, threadVars>>
    \/ BudgetExhausted /\ UNCHANGED <<callVars, selVars, threadVars>>

SpecConcurrent == ConcInit /\ [][ConcNext]_vars

(***************************************************************************)
(* Properties of a run (specification Spec).                               *)
(***************************************************************************)
Last(seq) == seq[Len(seq)]
Range(seq) == {seq[i] : i \in 1..Len(seq)}

HasFunctionCall(msg) == Truthy(msg.function_call)
HasText(msg) == msg.content.ty = "str" /\ msg.content.s # <<>>

TransportErrors == {"APIError", "ConnectionError", "HTTPError"}

\* C1: when every reply of the model requests a tool call and every call
\* returns, the run makes exactly max_steps model calls and max_steps
\* dispatches and then returns the sentinel; it returns nothing else and
\* makes no further model call.  (max_steps taken as a count, >= 0.)
C1_ToolCallsExhaustBudget ==
    (/\ max_steps >= 0
     /\ raised = "none"
     /\ \A i \in 1..Len(responses) : HasFunctionCall(responses[i]))
    => /\ nModelCalls <= max_steps
       /\ nDispatch = nModelCalls
       /\ pc # "DONE"
       /\ pc = "AWAITING_MODEL" => result = NoneV
       /\ pc = "STEP_BUDGET_EXHAUSTED" =>
            nModelCalls = max_steps /\ nDispatch = max_steps /\ result = STOPPED

\* C2: whatever max_steps is, a run whose first reply is the plain text
\* "Final Answer: X" (X holding no further marker) is DONE after one model
\* call and no dispatch, and its result is X, white space trimmed.
C2_ImmediateFinalAnswer ==
    (/\ Len(responses) >= 1
     /\ ~HasFunctionCall(responses[1])
     /\ HasText(responses[1])
     /\ Head(responses[1].content.s) = FINAL_MARKER
     /\ ~Contains(Tail(responses[1].content.s), FINAL_MARKER))
    => /\ pc = "DONE"
       /\ nModelCalls = 1
       /\ nDispatch = 0
       /\ result = StrV(Strip(Tail(responses[1].content.s)))
       /\ responses[1].content.s = <<"Final Answer:", " ", "42">> => result = StrV(<<"42">>)

C2_Witness ==
    /\ max_steps = MaxSteps
    /\ pc = "DONE"
    /\ responses = <<Message(StrV(<<"Final Answer:", " ", "42">>), NoneV)>>
    /\ result = StrV(<<"42">>)

\* C3: a reply that carries both a tool call and text takes the tool-call
\* branch: the assistant entry with the call and the text is appended, the
\* tool is dispatched and its tool_result entry appended, and the text does
\* not end the run.
C3_ToolCallTakesPrecedence ==
    (/\ Len(responses) >= 1
     /\ raised = "none"
     /\ HasFunctionCall(Last(responses))
     /\ HasText(Last(responses)))
    => /\ pc # "DONE"
       /\ Len(messages) >= 4
       /\ messages[Len(messages) - 1] = FunctionCallEntry(Last(responses))
       /\ Last(messages).role = "function"

\* C4: a tool-call reply never aborts the run on account of its tool name or
\* its argument string: a tool_result entry is appended and the loop goes on.
\* (Stated for the replies that carry no text.)
C4_ArgumentsNeverAbort ==
    (/\ Len(responses) >= 1
     /\ HasFunctionCall(Last(responses))
     /\ ~HasText(Last(responses))
     /\ raised \notin TransportErrors)
    => /\ pc # "ABORTED"
       /\ Last(messages).role = "function"
       /\ Last(messages).name = Last(responses).function_call.name
       /\ Last(messages).content.ty = "str"

\* C5: every tool_result entry of the transcript has, somewhere before it, an
\* assistant entry whose function_call names the same tool.
C5_ToolResultHasRequest ==
    \A i \in 1..Len(messages) :
        messages[i].role = "function" =>
            \E j \in 1..(i - 1) :
                /\ messages[j].role = "assistant"
                /\ "function_call" \in DOMAIN messages[j]
                /\ messages[j].function_call.name = messages[i].name

C5_Witness ==
    \E i, j \in 1..Len(messages) :
        /\ messages[i].role = "function" /\ messages[i].name = "calc"
        /\ messages[j].role = "function" /\ messages[j].name = "bogus_tool"
        /\ i < j

(***************************************************************************)
(* Properties of a call of dispatch_function_call (specification           *)
(* SpecDispatch).                                                          *)
(***************************************************************************)
Called == callPc \in {"returned", "raised"}

\* the call reaches safe_eval, with CalcExpr as its argument
IsCalcCall == function_name = "calc" /\ args.ty = "dict"
CalcExpr == IF "expression" \in DOMAIN args.d THEN args.d.expression ELSE EmptySrc

IsTree(e) == IsSrc(e) /\ e.src.k = "expr"

CALC_ERRORS ==
    {"calc error: invalid expression (", "calc error: disallowed expression part ",
     "calc error: evaluation failed ("}

IsCalcError(v) == v.ty = "str" /\ v.s # <<>> /\ Head(v.s) \in CALC_ERRORS

\* a stage of safe_eval fails on e: the parse, the allow-list, or the evaluation
SomeStageFails(e) ==
    IF ~IsTree(e) THEN TRUE
    ELSE \/ \E n \in Range(Walk(<<Expression(e.src.tree)>>)) : n.node \notin ALLOWED_AST_NODES
         \/ Eval(e.src.tree).exc # "none"

OneOverZero == ExprSrc(BinOp(Num(1), "Div", Num(0)))

\* C6: safe_eval never raises; whichever stage fails, the call returns a
\* "calc error: ..." string ("" and 1/0 included), and calc dispatched with no
\* expression argument returns the "invalid expression" message.
C6_SafeEvalNeverRaises ==
    (Called /\ IsCalcCall)
    => /\ callPc = "returned"
       /\ callOut.val.ty = "str"
       /\ SomeStageFails(CalcExpr) => IsCalcError(callOut.val)
       /\ CalcExpr = EmptySrc => Head(callOut.val.s) = "calc error: invalid expression ("
       /\ CalcExpr = OneOverZero =>
            callOut.val.s = <<"calc error: evaluation failed (", "division by zero", ")">>

C6_Witness ==
    /\ callPc = "returned"
    /\ function_name = "calc"
    /\ args = DictV([expression |-> OneOverZero])
    /\ callOut.val.s = <<"calc error: evaluation failed (", "division by zero", ")">>

\* the syntax of the arithmetic grammar: numeric literals, unary negation and
\* the seven binary operators
ARITHMETIC_NODES ==
    {"Expression", "BinOp", "UnaryOp", "Constant",
     "Add", "Sub", "Mult", "Div", "Pow", "Mod", "FloorDiv", "USub"}

IsArithmeticNode(n) ==
    /\ n.node \in ARITHMETIC_NODES
    /\ n.node = "Constant" => n.value.ty \in {"int", "float"}

HasOtherSyntax(tree) ==
    \E n \in Range(Walk(<<Expression(tree)>>)) : ~IsArithmeticNode(n)

\* C7: an expression holding any syntax other than numeric literals and the
\* allowed operators gets the "disallowed expression part" message, and its
\* evaluation is never reached.
C7_OtherSyntaxRejected ==
    (Called /\ IsCalcCall /\ IsTree(CalcExpr) /\ HasOtherSyntax(CalcExpr.src.tree))
    => /\ callPc = "returned"
       /\ Head(callOut.val.s) = "calc error: disallowed expression part "
       /\ ~callOut.evaluated

\* C8: every result of safe_eval that is no error is the decimal text of a
\* number, and the expression is built from numeric literals, unary negation
\* and the seven binary operators only; a non-numeric literal never yields a
\* success.
C8_SuccessIsArithmetic ==
    (Called /\ IsCalcCall /\ callPc = "returned" /\ ~IsCalcError(callOut.val))
    => /\ IsTree(CalcExpr)
       /\ ~HasOtherSyntax(CalcExpr.src.tree)
       /\ Eval(CalcExpr.src.tree).val.ty \in {"int", "float"}

\* C9: for a name that is neither "search" nor "calc", whatever the
\* arguments, dispatch_function_call returns "unknown function <name>"; it
\* does not raise, issues no GET and does not call safe_eval.
C9_UnknownFunction ==
    (Called /\ function_name \notin {"search", "calc"})
    => /\ callPc = "returned"
       /\ callOut.val = StrV(<<"unknown function ", function_name>>)
       /\ callOut.http = <<>>
       /\ callOut.calc = 0

C9_Witness ==
    /\ callPc = "returned"
    /\ function_name = "bogus_tool"
    /\ args = ListV(<<IntV(1)>>)
    /\ net.search = "unreachable"
    /\ callOut.val = StrV(<<"unknown function ", "bogus_tool">>)

\* C10: when the search-query GET of a search dispatch is unreachable or
\* answers with an error status, the run aborts there: no tool_result entry is
\* appended for the call, no further model call is made, nothing is returned.
C10_SearchFailureAborts ==
    (/\ http_log # <<>>
     /\ Last(http_log).call = "search"
     /\ Last(http_log).outcome \in {"unreachable", "error_status"})
    => /\ pc = "ABORTED"
       /\ raised \in {"ConnectionError", "HTTPError"}
       /\ result = NoneV
       /\ Last(messages) = FunctionCallEntry(Last(responses))
       /\ nModelCalls = Len(responses)
       /\ step = nModelCalls

C10_Witness ==
    /\ pc = "ABORTED"
    /\ Len(responses) = 2
    /\ http_log # <<>>
    /\ Last(http_log) = [call |-> "search", outcome |-> "error_status"]
    /\ Len(messages) = 5

(***************************************************************************)
(* The transcript of a run (specification Spec).                           *)
(***************************************************************************)
IsPrefix(s, t) == Len(s) <= Len(t) /\ SubSeq(t, 1, Len(s)) = s

\* C13: the transcript starts as exactly [system instruction, user question],
\* and every step leaves the transcript it found as a prefix of the transcript
\* it leaves: no entry is removed, reordered or modified.
C13_AppendOnly ==
    /\ messages = <<[role |-> "system", content |-> SYSTEM_PROMPT],
                    [role |-> "user", content |-> user_question]>>
    /\ [][IsPrefix(messages, messages')]_vars

C13_Witness ==
    /\ Len(messages) = 2 + 2 * MaxSteps
    /\ messages[3].role = "assistant"
    /\ messages[4].role = "function"
    /\ Last(messages).role = "function"

\* the reply is dispatched to search, with a dict of arguments whose query is
\* empty or missing
SearchNoQuery(msg) ==
    /\ IsFunctionCall(msg)
    /\ msg.function_call.name = "search"
    /\ LET a == ParseArgs(ArgStr(msg))
       IN  a.ty = "dict" /\ ("query" \in DOMAIN a.d => a.d.query = EmptySrc)

EMPTY_QUERY == StrV(<<"search: empty query">>)

\* C14: a search dispatch whose query argument is empty or missing issues no
\* GET at all (neither the search-query call nor the summary call), returns
\* "search: empty query", and the run goes on with that string as the
\* observation of the call.
C14_EmptyQueryNoHttp ==
    [][(responses' # responses /\ SearchNoQuery(Last(responses')))
       => /\ http_log' = http_log
          /\ nDispatch' = nDispatch + 1
          /\ Len(messages') = Len(messages) + 2
          /\ Last(messages') = [role |-> "function", name |-> "search",
                                content |-> EMPTY_QUERY]
          /\ pc' = "AWAITING_MODEL"
          /\ raised' = "none"]_vars

C14_Witness ==
    /\ Len(responses) = 2
    /\ responses[1] = Message(NoneV, FunctionCallV("search", NoneV))
    /\ responses[2] =
         Message(NoneV, FunctionCallV("search", JsonDoc(DictV([query |-> EmptySrc]))))
    /\ Len(messages) = 6
    /\ messages[4].content = EMPTY_QUERY
    /\ messages[6].content = EMPTY_QUERY
    /\ http_log = <<>>
    /\ pc = "AWAITING_MODEL"

(***************************************************************************)
(* The result of a run that ends on a final answer (specification Spec).   *)
(***************************************************************************)
Max(S) == CHOOSE x \in S : \A y \in S : y <= x

MarkerAt(s) == {j \in 1..Len(s) : s[j] = FINAL_MARKER}

\* what follows the first, the last occurrence of the marker in s
AfterFirstMarker(s) == SubSeq(s, Min(MarkerAt(s)) + 1, Len(s))
AfterLastMarker(s) == SubSeq(s, Max(MarkerAt(s)) + 1, Len(s))

IsFinalText(msg) == IsTextReply(msg) /\ Contains(msg.content.s, FINAL_MARKER)

\* C16 as stated: a text reply holding the marker ends the run at once, and
\* the result is the text after the marker's FIRST occurrence, white space
\* trimmed.
C16_AfterFirstOccurrence ==
    \A i \in 1..Len(responses) :
        IsFinalText(responses[i])
        => /\ pc = "DONE"
           /\ i = Len(responses)
           /\ result = StrV(Strip(AfterFirstMarker(responses[i].content.s)))

\* C16, amended: a text reply holding the marker ends the run at once: it is
\* the last reply of the run, no model call and no dispatch follows it, and
\* the result is the text after the marker's LAST occurrence, white space
\* trimmed.
C16_AfterLastOccurrence ==
    \A i \in 1..Len(responses) :
        IsFinalText(responses[i])
        => /\ pc = "DONE"
           /\ i = Len(responses)
           /\ nModelCalls = i
           /\ nDispatch = Cardinality({j \in 1..(i - 1) : IsFunctionCall(responses[j])})
           /\ result = StrV(Strip(AfterLastMarker(responses[i].content.s)))

C16_Witness ==
    /\ pc = "DONE"
    /\ Len(responses) = 2
    /\ IsFunctionCall(responses[1])
    /\ responses[2].content.s =
         <<"Thought", " ", "Final Answer:", " ", "41", " ", "Final Answer:", " ", "42", " ">>
    /\ result = StrV(<<"42">>)
    /\ nDispatch = 1

\* the string a returning dispatch of the request of msg can give
Observations(msg) ==
    {out.val : out \in {o \in {dispatch_function_call(msg.function_call.name,
                                                      ParseArgs(ArgStr(msg)), n) :
                                n \in NetOutcomes} : o.exc = "none"}}

\* C12: when the replies of a run are k tool-call requests followed by a plain
\* text holding "Final Answer:", the run returns with the transcript system,
\* user, then for each request in order the assistant entry of the call (with
\* the argument string as received, "{}" when there is none) and right after
\* it the tool_result entry with the name of the tool and the string dispatch
\* returned, then the assistant entry of the final text; k dispatches and
\* k + 1 model calls have been made.
C12_TranscriptOrder ==
    LET n == Len(responses)
        k == n - 1
    IN  (/\ n >= 1
         /\ \A i \in 1..k : HasFunctionCall(responses[i])
         /\ ~HasFunctionCall(responses[n])
         /\ HasText(responses[n])
         /\ Contains(responses[n].content.s, FINAL_MARKER))
        => /\ pc = "DONE"
           /\ nModelCalls = n
           /\ nDispatch = k
           /\ Len(messages) = 2 * k + 3
           /\ messages[1] = [role |-> "system", content |-> SYSTEM_PROMPT]
           /\ messages[2] = [role |-> "user", content |-> user_question]
           /\ \A i \in 1..k :
                /\ messages[2 * i + 1] =
                     [role |-> "assistant", content |-> responses[i].content,
                      function_call |-> [name |-> responses[i].function_call.name,
                                         arguments |-> ArgStr(responses[i])]]
                /\ messages[2 * i + 2].role = "function"
                /\ messages[2 * i + 2].name = responses[i].function_call.name
                /\ messages[2 * i + 2].content \in Observations(responses[i])
           /\ messages[2 * k + 3] = [role |-> "assistant", content |-> responses[n].content]

(***************************************************************************)
(* The selector (specification SpecSelector).                              *)
(***************************************************************************)
\* C11: whatever the question, use_langgraph and HAS_LANGGRAPH are, run
\* enters run_react_agent_fallback, with that question, the step budget 8 and
\* the model "gpt-4-0613"; the loop starts from the transcript [system,
\* question] and runs as it does when called by itself, so neither transcript
\* nor result depends on the path taken.
C11_SelectorRunsFallback ==
    pc # "idle"
    => /\ Last(via) = "run_react_agent_fallback"
       /\ max_steps = 8
       /\ model = "gpt-4-0613"
       /\ user_question = question
       /\ SubSeq(messages, 1, 2) = <<[role |-> "system", content |-> SYSTEM_PROMPT],
                                     [role |-> "user", content |-> question]>>
       /\ raised = "none" =>
            Len(messages) = 2 + Len(SelectSeq(responses, IsTextReply))
                              + 2 * Len(SelectSeq(responses, IsFunctionCall))
       /\ pc = "DONE" => result = StrV(FinalAnswer(Last(responses).content.s))

C11_Witness ==
    /\ via = <<"run", "build_and_run_langgraph", "run_react_agent_fallback">>
    /\ use_langgraph /\ HAS_LANGGRAPH
    /\ max_steps = 8
    /\ pc = "DONE"
    /\ Len(messages) = 5
    /\ result = StrV(<<"42">>)

(***************************************************************************)
(* Runs side by side (specification SpecConcurrent).                       *)
(***************************************************************************)
FrameOf(t) == IF t = tid THEN Frame ELSE parked[t]

\* ms is what a run alone appends for the replies rs, in order: the text of
\* a text reply; the call entry of a tool call and the tool_result of its
\* dispatch (the call entry only, and last, when the dispatch raised);
\* nothing for a reply that is neither
RECURSIVE AppendedAlone(_, _)
AppendedAlone(ms, rs) ==
    IF rs = <<>> THEN ms = <<>>
    ELSE LET r == Head(rs)
         IN  IF HasText(r)
             THEN /\ ms # <<>>
                  /\ Head(ms) = [role |-> "assistant", content |-> r.content]
                  /\ AppendedAlone(Tail(ms), Tail(rs))
             ELSE IF HasFunctionCall(r)
             THEN /\ ms # <<>>
                  /\ Head(ms).role = "assistant"
                  /\ "function_call" \in DOMAIN Head(ms)
                  /\ Head(ms).function_call.name = r.function_call.name
                  /\ Head(ms).function_call.arguments = ArgStr(r)
                  /\ IF Len(ms) = 1 THEN Len(rs) = 1
                     ELSE /\ ms[2].role = "function"
                          /\ ms[2].name = r.function_call.name
                          /\ ms[2].content \in Observations(r)
                          /\ AppendedAlone(SubSeq(ms, 3, Len(ms)), Tail(rs))
             ELSE AppendedAlone(ms, Tail(rs))

\* the result of a run alone that got the replies rs and is at pc
ResultAlone(rs, at) ==
    IF at = "DONE" THEN StrV(Strip(AfterLastMarker(Last(rs).content.s)))
    ELSE IF at = "STEP_BUDGET_EXHAUSTED" THEN STOPPED
    ELSE NoneV

\* C15: with the iterations of the runs interleaved in any order, the
\* transcript of each run is made of its own question, its own replies and
\* the results of its own tool calls only, in the order of a run alone, and
\* its result is the result of a run alone with the same replies.
C15_RunsAreIsolated ==
    \A t \in Threads :
        LET f == FrameOf(t)
        IN  /\ f.user_question = StrV(Asks[t])
            /\ Len(f.messages) >= 2
            /\ f.messages[1] = [role |-> "system", content |-> SYSTEM_PROMPT]
            /\ f.messages[2] = [role |-> "user", content |-> StrV(Asks[t])]
            /\ AppendedAlone(SubSeq(f.messages, 3, Len(f.messages)), f.responses)
            /\ (f.pc = "DONE") = (f.responses # <<>> /\ IsFinalText(Last(f.responses)))
            /\ f.pc = "STEP_BUDGET_EXHAUSTED" => Len(f.responses) = f.max_steps
            /\ f.nDispatch = Len(SelectSeq(f.responses, IsFunctionCall))
            /\ f.result = ResultAlone(f.responses, f.pc)

C15_Witness ==
    /\ tid = "B"
    /\ "A" \in DOMAIN parked
    /\ parked["A"].pc = "DONE"
    /\ Len(parked["A"].messages) = 5
    /\ pc = "STEP_BUDGET_EXHAUSTED"
    /\ Len(messages) = 2 + 2 * ConcurrentSteps
    /\ messages[4].content # parked["A"].messages[4].content

(***************************************************************************)
(* The budget of a run (specification Spec).                               *)
(***************************************************************************)
\* C18: in every state of a run, the model calls made are at most
\* max(max_steps, 0), the dispatches at most the model calls, the transcript
\* has at most 2 + 2 * (model calls) entries, and a run with max_steps <= 0
\* makes no model call.
C18_Budget ==
    /\ nModelCalls <= (IF max_steps > 0 THEN max_steps ELSE 0)
    /\ nDispatch <= nModelCalls
    /\ Len(messages) <= 2 + 2 * nModelCalls
    /\ max_steps <= 0 => nModelCalls = 0

C18_Witness ==
    /\ max_steps = MaxSteps
    /\ nModelCalls = MaxSteps
    /\ nDispatch = MaxSteps
    /\ Len(messages) = 2 + 2 * MaxSteps
    /\ pc = "STEP_BUDGET_EXHAUSTED"

Terminal == pc \in {"DONE", "STEP_BUDGET_EXHAUSTED"}

\* C17: whatever max_steps and the replies of the model are, a run in which
\* every model call and every dispatch returns (none raises) ends up DONE or
\* STEP_BUDGET_EXHAUSTED and stays there; a run that is DONE or
\* STEP_BUDGET_EXHAUSTED takes no further step.
C17_Terminates ==
    /\ <>[](Terminal \/ raised # "none")
    /\ [][Terminal => UNCHANGED runVars]_vars

C17_Witness ==
    /\ pc = "STEP_BUDGET_EXHAUSTED"
    /\ max_steps = MaxSteps
    /\ raised = "none"
    /\ \E i \in 1..Len(responses) : IsFunctionCall(responses[i])
    /\ \E i \in 1..Len(responses) :
          IsTextReply(responses[i]) /\ HasFunctionCall(responses[i])
    /\ \E i \in 1..Len(responses) :
          ~IsTextReply(responses[i]) /\ ~IsFunctionCall(responses[i])

\* the reply has neither text nor a tool-call request
IsNeither(msg) == ~Truthy(msg.content) /\ ~Truthy(msg.function_call)

\* C19: a reply with neither text nor a tool-call request leaves the
\* transcript as it is, causes no dispatch, no GET, no evaluation and no pacing
\* delay, and takes one step of the budget; the run is left awaiting the next
\* model call, which gets the same transcript.
C19_EmptyReplyFrame ==
    [][(responses' # responses /\ IsNeither(Last(responses')))
       => /\ messages' = messages
          /\ nDispatch' = nDispatch
          /\ nSleep' = nSleep
          /\ http_log' = http_log
          /\ nCalc' = nCalc
          /\ step' = step + 1
          /\ nModelCalls' = nModelCalls + 1
          /\ pc' = "AWAITING_MODEL"
          /\ result' = NoneV]_vars

C19_Witness ==
    /\ responses = <<Message(NoneV, NoneV), Message(StrV(<<>>), NoneV)>>
    /\ Len(messages) = 2
    /\ step = 2
    /\ nDispatch = 0
    /\ nSleep = 0
    /\ pc = "AWAITING_MODEL"
====
